---- MODULE Spec2Model ----
(***************************************************************************)
(* A model of github.com/episub/go-forms: the field coercion layer         *)
(* (ensureBool, ensureString, ensureUUID), the validators and their        *)
(* OR-combinator, GetGroup, and ApplyDefinition run by several callers     *)
(* that share one Definition.                                              *)
(*                                                                         *)
(* Go strings are sequences of one-character strings, so that             *)
(* strings.TrimSpace, strings.Join and the fmt verbs act on characters.    *)
(* A Go interface{} value is a record [t |-> <dynamic type>, v |-> ...].   *)
(* An error is a record [isErr |-> BOOLEAN, msg |-> <string>].             *)
(***************************************************************************)
EXTENDS Integers, Sequences, FiniteSets, TLC

(***************************************************************************)
(* Strings and package fmt                                                 *)
(***************************************************************************)

\* The characters strings.TrimSpace removes (the ASCII part of unicode.IsSpace).
WhiteSpace == {" ", "\t", "\n", "\r"}

\* The characters fmt accepts as flags between '%' and the verb.
FlagChars == {"#", "0", "+", "-", " "}

DigitChars == {"0", "1", "2", "3", "4", "5", "6", "7", "8", "9"}

Digits == <<"0", "1", "2", "3", "4", "5", "6", "7", "8", "9">>

\* "%!"
PercentBang ==
    <<"%","!">>

\* "(NOVERB)"
NoVerb ==
    <<"(","N","O","V","E","R","B",")">>

\* "(MISSING)"
Missing ==
    <<"(","M","I","S","S","I","N","G",")">>

\* strconv.Itoa for a natural number.
RECURSIVE Itoa(_)
Itoa(n) ==
    IF n < 10 THEN <<Digits[n + 1]>>
    ELSE Itoa(n \div 10) \o <<Digits[(n % 10) + 1]>>

\* The first position >= i of f that holds no character of S (Len(f)+1 if none).
SkipWhile(f, i, S) ==
    CHOOSE j \in i..(Len(f) + 1) :
        /\ \A k \in i..(j - 1) : f[k] \in S
        /\ j = Len(f) + 1 \/ f[j] \notin S

\* The position after a '.' and a precision, if one starts at w.
SkipPrecision(f, w) ==
    IF w <= Len(f) /\ f[w] = "." THEN SkipWhile(f, w + 1, DigitChars) ELSE w

\* The position of the verb of the directive whose '%' is at i - 1: fmt skips
\* the flags, then a width, then a '.' and a precision.  (Explicit argument
\* indexes "[n]" and '*' widths are not modelled; no format here holds them.)
VerbPos(f, i) ==
    SkipPrecision(f, SkipWhile(f, SkipWhile(f, i, FlagChars), DigitChars))

\* The position of the first '%' of f at or after i (Len(f)+1 if none).
NextPercent(f, i) ==
    LET at == {j \in i..Len(f) : f[j] = "%"} IN
    IF at = {} THEN Len(f) + 1
    ELSE CHOOSE j \in at : \A k \in at : j <= k

\* What the directive whose verb is at j prints when n is the next operand
\* to use, where the format goes on and the next operand after it.  Each
\* operand is given already rendered for its verb (%s, %d, %T, %q, %v).  A
\* '%' at the end of the format prints "%!(NOVERB)", "%%" prints '%', and a
\* verb with no operand left prints "%!v(MISSING)" for verb v.
Directive(f, args, n, j) ==
    IF j > Len(f)
    THEN [text |-> PercentBang \o NoVerb, next |-> j, n |-> n]
    ELSE IF f[j] = "%"
    THEN [text |-> <<"%">>, next |-> j + 1, n |-> n]
    ELSE IF n > Len(args)
    THEN [text |-> PercentBang \o <<f[j]>> \o Missing, next |-> j + 1, n |-> n]
    ELSE [text |-> args[n], next |-> j + 1, n |-> n + 1]

\* fmt's doPrintf from position i of f on, n the next operand to use: the
\* text up to the next '%' is copied, then the directive is printed.
RECURSIVE Printf(_, _, _, _)
PrintfDirective(f, args, d) ==
    d.text \o Printf(f, args, d.next, d.n)

PrintfFrom(f, args, i, n, p) ==
    IF p > Len(f) THEN SubSeq(f, i, Len(f))
    ELSE SubSeq(f, i, p - 1) \o
         PrintfDirective(f, args, Directive(f, args, n, VerbPos(f, p + 1)))

Printf(f, args, i, n) ==
    PrintfFrom(f, args, i, n, NextPercent(f, i))

\* fmt.Sprintf(format, args...)
Sprintf(format, args) ==
    Printf(format, args, 1, 1)

\* The nil error.
NoError == [isErr |-> FALSE, msg |-> <<>>]

\* An error whose Error() is msg, as errors.New(msg) builds it.
NewError(msg) == [isErr |-> TRUE, msg |-> msg]

\* fmt.Errorf(format, args...): the format is interpreted, also when the
\* caller passes a message as the format and no operand.
Errorf(format, args) == NewError(Sprintf(format, args))

\* strings.TrimSpace
RECURSIVE TrimLeft(_)
TrimLeft(s) ==
    IF s # <<>> /\ Head(s) \in WhiteSpace THEN TrimLeft(Tail(s)) ELSE s

RECURSIVE TrimRight(_)
TrimRight(s) ==
    IF s # <<>> /\ s[Len(s)] \in WhiteSpace
    THEN TrimRight(SubSeq(s, 1, Len(s) - 1))
    ELSE s

TrimSpace(s) == TrimRight(TrimLeft(s))

\* strings.Join(elems, sep)
RECURSIVE Join(_, _)
Join(elems, sep) ==
    IF elems = <<>> THEN <<>>
    ELSE IF Len(elems) = 1 THEN elems[1]
    ELSE elems[1] \o sep \o Join(Tail(elems), sep)

(***************************************************************************)
(* interface{} values                                                      *)
(***************************************************************************)

\* The nil interface value.
NilValue == [t |-> "nil", v |-> FALSE]

BoolValue(b) == [t |-> "bool", v |-> b]

StringValue(s) == [t |-> "string", v |-> s]

IntValue(i) == [t |-> "int", v |-> i]

\* A uuid.UUID: its 16 bytes as 32 lower-case hexadecimal digits.
UUIDValue(u) == [t |-> "uuid", v |-> u]

\* What the verb %T prints for a value.
TypeNameOf(val) ==
    CASE val.t = "bool" -> <<"b","o","o","l">>
      [] val.t = "string" -> <<"s","t","r","i","n","g">>
      [] val.t = "int" -> <<"i","n","t">>
      [] val.t = "uuid" -> <<"u","u","i","d",".","U","U","I","D">>
      [] OTHER -> <<"<","n","i","l",">">>

\* The result pair (value, error) of a coercion.
Result(val, err) == [val |-> val, err |-> err]

(***************************************************************************)
(* github.com/gofrs/uuid: FromString                                       *)
(***************************************************************************)

HexChars ==
    DigitChars \cup {"a", "b", "c", "d", "e", "f", "A", "B", "C", "D", "E", "F"}

\* encoding/hex decodes both cases to the same byte.
LowerHex(c) ==
    CASE c = "A" -> "a" [] c = "B" -> "b" [] c = "C" -> "c"
      [] c = "D" -> "d" [] c = "E" -> "e" [] c = "F" -> "f"
      [] OTHER -> c

\* uuid.Nil, the zero UUID.
NilUUID == [i \in 1..32 |-> "0"]

\* The positions of the hyphens of the canonical 8-4-4-4-12 form.
HyphenPos == {9, 14, 19, 24}

\* "uuid: incorrect UUID length %d in string %q"
FmtUUIDLength ==
    <<"u","u","i","d",":"," ","i","n","c","o","r","r","e","c","t"," ","U","U","I","D"," ","l","e","n","g","t","h"," ","%","d"," ","i","n"," ","s","t","r","i","n","g"," ","%","q">>

\* What the verb %q prints for a string of printable characters and tabs.
RECURSIVE Quoted(_)
Quoted(s) ==
    IF s = <<>> THEN <<>>
    ELSE (IF Head(s) = "\t" THEN <<"\\", "t">> ELSE <<Head(s)>>) \o Quoted(Tail(s))

IsCanonicalUUID(s) ==
    /\ Len(s) = 36
    /\ \A i \in 1..36 : IF i \in HyphenPos THEN s[i] = "-" ELSE s[i] \in HexChars

\* uuid.FromString(input) for an input that is either a canonical UUID or of
\* a length no UUID form has: the UUID and a nil error, or uuid.Nil and the
\* parser's error.  (The hash-like, braced and URN forms, of lengths 32, 34,
\* 38, 41 and 45, and a 36 character string that is not canonical, are
\* outside the inputs of this model.)
FromString(input) ==
    IF IsCanonicalUUID(input)
    THEN Result(UUIDValue([i \in 1..32 |->
                    LowerHex(SelectSeq(input, LAMBDA c : c # "-")[i])]), NoError)
    ELSE Result(UUIDValue(NilUUID),
                Errorf(FmtUUIDLength,
                       <<Itoa(Len(input)), <<"\"">> \o Quoted(input) \o <<"\"">> >>))

(***************************************************************************)
(* form.go: the type coercion layer                                        *)
(***************************************************************************)

TypeBool == <<"b","o","o","l">>

TypeString == <<"s","t","r","i","n","g">>

TypeUUID == <<"u","u","i","d">>

MissingErrorNone == <<>>

MissingErrorWarn == <<"w","a","r","n">>

MissingErrorFail == <<"f","a","i","l">>

StrTrue == <<"t","r","u","e">>

StrOn == <<"o","n">>

StrFalse == <<"f","a","l","s","e">>

StrOff == <<"o","f","f">>

\* "field must be true or false"
FmtTrueOrFalse ==
    <<"f","i","e","l","d"," ","m","u","s","t"," ","b","e"," ","t","r","u","e"," ","o","r"," ","f","a","l","s","e">>

\* "Cannot convert type %T to bool"
FmtToBool ==
    <<"C","a","n","n","o","t"," ","c","o","n","v","e","r","t"," ","t","y","p","e"," ","%","T"," ","t","o"," ","b","o","o","l">>

\* "Cannot convert type %T to string"
FmtToString ==
    <<"C","a","n","n","o","t"," ","c","o","n","v","e","r","t"," ","t","y","p","e"," ","%","T"," ","t","o"," ","s","t","r","i","n","g">>

\* "Cannot convert type %T to uuid.UUID"
FmtToUUID ==
    <<"C","a","n","n","o","t"," ","c","o","n","v","e","r","t"," ","t","y","p","e"," ","%","T"," ","t","o"," ","u","u","i","d",".","U","U","I","D">>

\* ensureBool as it was before it took the trim flag: the string is matched
\* as given.
ensureBoolNoTrim(s, trimSpace) ==
    CASE s.t = "bool" -> Result(s, NoError)
      [] s.t = "string" ->
            CASE s.v = StrTrue \/ s.v = StrOn -> Result(BoolValue(TRUE), NoError)
              [] s.v = StrFalse \/ s.v = StrOff -> Result(BoolValue(FALSE), NoError)
              [] OTHER -> Result(NilValue, Errorf(FmtTrueOrFalse, <<>>))
      [] OTHER -> Result(NilValue, Errorf(FmtToBool, <<TypeNameOf(s)>>))

ensureBool(s, trimSpace) ==
    CASE s.t = "bool" -> Result(s, NoError)
      [] s.t = "string" ->
            LET str == IF trimSpace THEN TrimSpace(s.v) ELSE s.v IN
            CASE str = StrTrue \/ str = StrOn -> Result(BoolValue(TRUE), NoError)
              [] str = StrFalse \/ str = StrOff -> Result(BoolValue(FALSE), NoError)
              [] OTHER -> Result(NilValue, Errorf(FmtTrueOrFalse, <<>>))
      [] OTHER -> Result(NilValue, Errorf(FmtToBool, <<TypeNameOf(s)>>))

\* ensureString trimming whatever the flag says.
ensureStringAlwaysTrim(s, trimSpace) ==
    CASE s.t = "string" ->
            Result(StringValue(TrimSpace(Sprintf(<<"%", "v">>, <<s.v>>))), NoError)
      [] OTHER -> Result(NilValue, Errorf(FmtToString, <<TypeNameOf(s)>>))

\* fmt.Sprintf("%v", s) of a string is the string.
ensureString(s, trimSpace) ==
    CASE s.t = "string" ->
            IF trimSpace
            THEN Result(StringValue(TrimSpace(Sprintf(<<"%", "v">>, <<s.v>>))), NoError)
            ELSE Result(StringValue(Sprintf(<<"%", "v">>, <<s.v>>)), NoError)
      [] OTHER -> Result(NilValue, Errorf(FmtToString, <<TypeNameOf(s)>>))

ensureUUID(s, trimSpace) ==
    CASE s.t = "uuid" -> Result(s, NoError)
      [] s.t = "string" ->
            IF trimSpace THEN FromString(TrimSpace(s.v)) ELSE FromString(s.v)
      [] OTHER -> Result(NilValue, Errorf(FmtToUUID, <<TypeNameOf(s)>>))

(***************************************************************************)
(* validation.go: validators                                               *)
(*                                                                         *)
(* A Validator closure is a record [kind, msg, n, chain] holding what the  *)
(* closure captured; Validate applies it to a value.                       *)
(***************************************************************************)

\* ErrMustBeString: "Field must be a string"
ErrMustBeString ==
    NewError(<<"F","i","e","l","d"," ","m","u","s","t"," ","b","e"," ","a"," ","s","t","r","i","n","g">>)

\* ErrMustBeBool: "Field must be a boolean"
ErrMustBeBool ==
    NewError(<<"F","i","e","l","d"," ","m","u","s","t"," ","b","e"," ","a"," ","b","o","o","l","e","a","n">>)

\* "Value must be a bool"
FmtValueBool ==
    <<"V","a","l","u","e"," ","m","u","s","t"," ","b","e"," ","a"," ","b","o","o","l">>

\* "Must be at least %d characters long"
FmtMinLength ==
    <<"M","u","s","t"," ","b","e"," ","a","t"," ","l","e","a","s","t"," ","%","d"," ","c","h","a","r","a","c","t","e","r","s"," ","l","o","n","g">>

\* " or "
OrSep ==
    <<" ","o","r"," ">>

ValidateFail(message) == [kind |-> "Fail", msg |-> message, n |-> 0, chain |-> <<>>]

ValidateTrue(msg) == [kind |-> "True", msg |-> msg, n |-> 0, chain |-> <<>>]

ValidateFalse(msg) == [kind |-> "False", msg |-> msg, n |-> 0, chain |-> <<>>]

ValidateMinimumLength(n) == [kind |-> "MinimumLength", msg |-> <<>>, n |-> n, chain |-> <<>>]

ValidateOrChain(validators) == [kind |-> "OrChain", msg |-> <<>>, n |-> 0, chain |-> validators]

\* The closure ValidateFail returns.
FailFunc(vd, v) == Errorf(vd.msg, <<>>)

\* The closure ValidateTrue returns.
TrueFunc(vd, s) ==
    IF s.t # "bool" THEN ErrMustBeBool
    ELSE IF ~s.v THEN Errorf(vd.msg, <<>>)
    ELSE NoError

\* The closure ValidateFalse returns.
FalseFunc(vd, v) ==
    IF v.t # "bool" THEN Errorf(FmtValueBool, <<>>)
    ELSE IF v.v THEN Errorf(vd.msg, <<>>)
    ELSE NoError

\* The closure ValidateMinimumLength returns.
MinimumLengthFunc(vd, s) ==
    IF s.t # "string" THEN ErrMustBeString
    ELSE IF Len(s.v) < vd.n THEN Errorf(FmtMinLength, <<Itoa(vd.n)>>)
    ELSE NoError

\* ErrMustBeInt: "Field must be an integer"
ErrMustBeInt ==
    NewError(<<"F","i","e","l","d"," ","m","u","s","t"," ","b","e"," ","a","n"," ","i","n","t","e","g","e","r">>)

\* "Field must be string"
FmtMustBeString ==
    <<"F","i","e","l","d"," ","m","u","s","t"," ","b","e"," ","s","t","r","i","n","g">>

\* "Must be positive"
FmtMustBePositive ==
    <<"M","u","s","t"," ","b","e"," ","p","o","s","i","t","i","v","e">>

\* [a-zA-Z]
LetterChars ==
    { "a", "b", "c", "d", "e", "f", "g", "h", "i", "j", "k", "l", "m",
      "n", "o", "p", "q", "r", "s", "t", "u", "v", "w", "x", "y", "z",
      "A", "B", "C", "D", "E", "F", "G", "H", "I", "J", "K", "L", "M",
      "N", "O", "P", "Q", "R", "S", "T", "U", "V", "W", "X", "Y", "Z" }

\* An item of a compiled pattern: a class of characters repeated at least
\* min times and at most max times, or without upper limit when star.
RxItem(chars, min, max, star) ==
    [chars |-> chars, min |-> min, max |-> max, star |-> star]

\* A literal character of a pattern.
RxChar(c) == RxItem({c}, 1, 1, FALSE)

\* numberRx: ^-?\d*$
numberRx ==
    <<RxItem({"-"}, 0, 1, FALSE), RxItem(DigitChars, 0, 0, TRUE)>>

\* lettersWithNumbersRx: ^[a-zA-Z0-9]+$
lettersWithNumbersRx ==
    <<RxItem(LetterChars \cup DigitChars, 1, 1, TRUE)>>

\* aTrueRx: ^true$
aTrueRx ==
    <<RxChar("t"), RxChar("r"), RxChar("u"), RxChar("e")>>

\* Whether the items of rx from item i on match s from position pos to its
\* end: the pattern is anchored at both ends, and '$' matches at the end of
\* the text only.
RECURSIVE MatchFrom(_, _, _, _)
MatchFrom(rx, s, i, pos) ==
    IF i > Len(rx) THEN pos = Len(s) + 1
    ELSE \E n \in rx[i].min..(IF rx[i].star THEN Len(s) + 1 - pos ELSE rx[i].max) :
             /\ pos + n - 1 <= Len(s)
             /\ \A q \in pos..(pos + n - 1) : s[q] \in rx[i].chars
             /\ MatchFrom(rx, s, i + 1, pos + n)

\* rx.MatchString(s) for a pattern of the shape ^ item ... item $.
MatchString(rx, s) == MatchFrom(rx, s, 1, 1)

ValidateRegex(rx, message) ==
    [kind |-> "Regex", msg |-> message, n |-> 0, chain |-> <<>>, rx |-> rx]

ValidatePositive == [kind |-> "Positive", msg |-> <<>>, n |-> 0, chain |-> <<>>]

\* The closure ValidateRegex returns.
RegexFunc(vd, s) ==
    IF s.t # "string" THEN Errorf(FmtMustBeString, <<>>)
    ELSE IF ~MatchString(vd.rx, s.v) THEN Errorf(vd.msg, <<>>)
    ELSE NoError

\* The closure ValidatePositive returns.
PositiveFunc(vd, s) ==
    IF s.t # "int" THEN ErrMustBeInt
    ELSE IF s.v < 0 THEN Errorf(FmtMustBePositive, <<>>)
    ELSE NoError

\* The end of the closure ValidateOrChain returns, after its loop fell
\* through with the messages collected in errors.
OrChainResult(errors) ==
    IF Len(errors) = 0 THEN NoError
    ELSE Errorf(Join(errors, OrSep), <<>>)

\* Validate(vd, s): the error of validator vd on value s.  OrChainLoop is the
\* loop of the OR-chain closure from delegate i on: errors are the messages
\* collected so far, called the indexes of the delegates called so far.  It
\* yields the closure's error and the delegates it called.
RECURSIVE Validate(_, _), OrChainLoop(_, _, _, _, _)
OrChainLoop(validators, s, i, errors, called) ==
    IF i > Len(validators)
    THEN [err |-> OrChainResult(errors), called |-> called]
    ELSE LET err == Validate(validators[i], s) IN
         IF err.isErr
         THEN OrChainLoop(validators, s, i + 1, Append(errors, err.msg), Append(called, i))
         ELSE [err |-> NoError, called |-> Append(called, i)]

Validate(vd, s) ==
    CASE vd.kind = "Fail" -> FailFunc(vd, s)
      [] vd.kind = "True" -> TrueFunc(vd, s)
      [] vd.kind = "False" -> FalseFunc(vd, s)
      [] vd.kind = "MinimumLength" -> MinimumLengthFunc(vd, s)
      [] vd.kind = "Regex" -> RegexFunc(vd, s)
      [] vd.kind = "Positive" -> PositiveFunc(vd, s)
      [] vd.kind = "OrChain" -> OrChainLoop(vd.chain, s, 1, <<>>, <<>>).err

(***************************************************************************)
(* form.go: maps, GetGroup, inList                                         *)
(***************************************************************************)

\* make(map[...]...): the empty map.
EmptyMap == <<>>

\* m[k] = v
MapSet(mp, k, v) == [x \in DOMAIN mp \cup {k} |-> IF x = k THEN v ELSE mp[x]]

\* errors[k] = append(errors[k], err)
MapAppend(mp, k, err) ==
    MapSet(mp, k, Append(IF k \in DOMAIN mp THEN mp[k] ELSE <<>>, err))

\* GetGroupLoop storing m[name] without looking at "ok".
RECURSIVE GetGroupLoopNoOk(_, _, _, _, _)
GetGroupLoopNoOk(d, group, mp, todo, out) ==
    IF todo = {} THEN out
    ELSE LET name == CHOOSE x \in todo : TRUE
             field == d.Fields[name]
         IN  GetGroupLoopNoOk(d, group, mp, todo \ {name},
                 IF field.Group = group
                 THEN MapSet(out, name,
                             IF name \in DOMAIN mp THEN mp[name] ELSE NilValue)
                 ELSE out)

\* The loop of GetGroup over the fields of def still to visit, in any order.
RECURSIVE GetGroupLoop(_, _, _, _, _)
GetGroupLoop(d, group, mp, todo, out) ==
    IF todo = {} THEN out
    ELSE LET name == CHOOSE x \in todo : TRUE
             field == d.Fields[name]
         IN  GetGroupLoop(d, group, mp, todo \ {name},
                 IF field.Group = group /\ name \in DOMAIN mp
                 THEN MapSet(out, name, mp[name])
                 ELSE out)

GetGroup(d, group, mp) == GetGroupLoop(d, group, mp, DOMAIN d.Fields, EmptyMap)

RECURSIVE inList(_, _)
inList(list, str) ==
    IF list = <<>> THEN FALSE
    ELSE IF Head(list) = str THEN TRUE
    ELSE inList(Tail(list), str)

(***************************************************************************)
(* The inputs of the model                                                 *)
(***************************************************************************)

\* The number of ApplyDefinition calls that run concurrently on one Definition.
NumCallers == 2

Callers == 1..NumCallers

\* Form field names: a plain one, and one holding a '%' (a form's field
\* names are the submitter's choice).
KeyA == <<"a">>

KeyPct == <<"%","d">>

Keys == {KeyA, KeyPct}

\* Messages given to validator constructors.
MsgNo == <<"n","o">>

MsgPct == <<"1","%">>

\* A declared field type that ApplyDefinition does not know.
TypeInt == <<"i","n","t">>

\* "123e4567-e89b-12d3-a456-426614174000"
UUIDStr ==
    <<"1","2","3","e","4","5","6","7","-","e","8","9","b","-","1","2","d","3","-","a","4","5","6","-","4","2","6","6","1","4","1","7","4","0","0","0">>

FieldDefinition(group, fieldType, validations, disableTrim) ==
    [Group |-> group, FieldType |-> fieldType,
     Validations |-> validations, DisableTrim |-> disableTrim]

Definition(fields) == [Fields |-> fields]

\* The schemas the callers share: between them they declare every field
\* type, an unknown one, both trim settings, two groups, validator lists of
\* lengths 0 to 2, and the last one lacks a field name.
Definitions ==
    { Definition(KeyA :> FieldDefinition("g1", TypeBool,
                            <<ValidateTrue(MsgNo), ValidateFail(MsgPct)>>, FALSE)
              @@ KeyPct :> FieldDefinition("g2", TypeString,
                            <<ValidateMinimumLength(3)>>, TRUE)),
      Definition(KeyA :> FieldDefinition("g1", TypeUUID, <<>>, FALSE)
              @@ KeyPct :> FieldDefinition("g1", TypeInt,
                            <<ValidateFail(MsgNo)>>, FALSE)),
      Definition(KeyA :> FieldDefinition("g2", TypeString,
                            <<ValidateOrChain(<<ValidateTrue(MsgNo),
                                                ValidateMinimumLength(3)>>),
                              ValidateMinimumLength(2)>>, FALSE)) }

PermittedLists ==
    { <<>>, <<KeyA>>, <<KeyA, KeyPct>>, <<KeyPct, KeyA, KeyPct>> }

\* Raw form values: a native bool, strings with and without surrounding
\* whitespace, and a UUID in text.
InputValues ==
    { BoolValue(TRUE), StringValue(<<" ">> \o StrOff \o <<"\t">>),
      StringValue(<<"x">>), StringValue(UUIDStr) }

\* Every map from some of the keys to raw values.
InputMaps ==
    UNION { [D -> InputValues] : D \in SUBSET Keys }

ApplyOptions(errorOnPermission) == [ErrorOnPermission |-> errorOnPermission]

OptionValues ==
    { ApplyOptions(MissingErrorNone), ApplyOptions(MissingErrorWarn),
      ApplyOptions(MissingErrorFail) }

(***************************************************************************)
(* form.go: ApplyDefinition                                                *)
(***************************************************************************)

VARIABLES
    def,              \* the Definition every caller passes
    permittedFields,  \* the permitted list every caller passes
    m,                \* the input map every caller passes
    options,          \* the ApplyOptions every caller passes
    pc,               \* pc[c]: where caller c's ApplyDefinition call is
    visited,          \* visited[c]: the keys of m the range loop has yielded
    applied,          \* applied[c]: the call's local map applied
    errors,           \* errors[c]: the call's local map errors
    vcalls,           \* vcalls[c]: the validator calls made, in order
    returned,         \* returned[c]: what the call returned
    logged,           \* the lines written to the logrus standard logger
    unitCall,         \* a direct call of one function: its name and arguments
    unitRet           \* what that call returned: <<>> before it returns

vars ==
    <<def, permittedFields, m, options, pc, visited, applied, errors, vcalls,
      returned, logged, unitCall, unitRet>>

\* "Must provide a list of permitted fields with one or more fields"
FmtNoPermitted ==
    <<"M","u","s","t"," ","p","r","o","v","i","d","e"," ","a"," ","l","i","s","t"," ","o","f"," ","p","e","r","m","i","t","t","e","d"," ","f","i","e","l","d","s"," ","w","i","t","h"," ","o","n","e"," ","o","r"," ","m","o","r","e"," ","f","i","e","l","d","s">>

\* "Using field %s not permitted"
FmtNotPermitted ==
    <<"U","s","i","n","g"," ","f","i","e","l","d"," ","%","s"," ","n","o","t"," ","p","e","r","m","i","t","t","e","d">>

\* "Unknown field type %s when converting field %s"
FmtUnknownType ==
    <<"U","n","k","n","o","w","n"," ","f","i","e","l","d"," ","t","y","p","e"," ","%","s"," ","w","h","e","n"," ","c","o","n","v","e","r","t","i","n","g"," ","f","i","e","l","d"," ","%","s">>

\* What a call returns: the two maps (hasMaps is FALSE when both are nil)
\* and the top-level error.
Returned(hasMaps, app, errs, err) ==
    [hasMaps |-> hasMaps, applied |-> app, errors |-> errs, err |-> err]

\* NoPermittedFields with the comparison off by one.
NoPermittedFieldsOffByOne(list) == Len(list) <= 1

\* The precondition check at the top of ApplyDefinition.
NoPermittedFields(list) == Len(list) = 0

\* The switch on fieldDef.FieldType: whether applied[k] is assigned, the
\* value assigned and the error.  Each ensure call's two results are assigned
\* to applied[k] and err, whatever the error; the default case assigns err
\* alone.
Coerce(fieldDef, k, v) ==
    LET r == CASE fieldDef.FieldType = TypeBool -> ensureBool(v, ~fieldDef.DisableTrim)
               [] fieldDef.FieldType = TypeString -> ensureString(v, ~fieldDef.DisableTrim)
               [] fieldDef.FieldType = TypeUUID -> ensureUUID(v, ~fieldDef.DisableTrim)
               [] OTHER -> Result(NilValue,
                                  Errorf(FmtUnknownType, <<fieldDef.FieldType, k>>))
    IN  [assigned |-> fieldDef.FieldType \in {TypeBool, TypeString, TypeUUID},
         val |-> r.val, err |-> r.err]

\* applied[k] read as Go reads a map: the zero value when k is absent.
MapGet(mp, k) == IF k \in DOMAIN mp THEN mp[k] ELSE NilValue

\* ValidationsLoop leaving the loop at the first failing validator.
RECURSIVE ValidationsLoopBreak(_, _, _, _, _, _)
ValidationsLoopBreak(validations, i, k, val, errs, calls) ==
    IF i > Len(validations) THEN [errors |-> errs, vcalls |-> calls]
    ELSE LET err == Validate(validations[i], val)
             calls1 == Append(calls, [key |-> k, index |-> i, arg |-> val])
         IN  IF err.isErr
             THEN [errors |-> MapAppend(errs, k, err), vcalls |-> calls1]
             ELSE ValidationsLoopBreak(validations, i + 1, k, val, errs, calls1)

\* The loop over fieldDef.Validations from validator i on, for key k whose
\* coerced value is val: every validator is called on val, the failures are
\* appended to errors[k].
RECURSIVE ValidationsLoop(_, _, _, _, _, _)
ValidationsLoop(validations, i, k, val, errs, calls) ==
    IF i > Len(validations) THEN [errors |-> errs, vcalls |-> calls]
    ELSE LET err == Validate(validations[i], val) IN
         ValidationsLoop(validations, i + 1, k, val,
             IF err.isErr THEN MapAppend(errs, k, err) ELSE errs,
             Append(calls, [key |-> k, index |-> i, arg |-> val]))

\* LoopBody without the "continue" after a coercion error: the validators
\* run on whatever applied[k] holds.
LoopBodyNoContinue(d, permitted, opts, k, v, app, errs, calls) ==
    IF ~inList(permitted, k)
    THEN [applied |-> app,
          errors |-> IF opts.ErrorOnPermission = MissingErrorFail
                     THEN MapAppend(errs, k,
                              Errorf(Sprintf(FmtNotPermitted, <<k>>), <<>>))
                     ELSE errs,
          vcalls |-> calls,
          warned |-> IF opts.ErrorOnPermission = MissingErrorWarn
                     THEN <<Sprintf(Sprintf(FmtNotPermitted, <<k>>), <<>>)>>
                     ELSE <<>>]
    ELSE IF k \notin DOMAIN d.Fields
    THEN [applied |-> app, errors |-> errs, vcalls |-> calls, warned |-> <<>>]
    ELSE LET fieldDef == d.Fields[k]
             r == Coerce(fieldDef, k, v)
             app1 == IF r.assigned THEN MapSet(app, k, r.val) ELSE app
             errs1 == IF r.err.isErr THEN MapAppend(errs, k, r.err) ELSE errs
             after == ValidationsLoop(fieldDef.Validations, 1, k,
                                      MapGet(app1, k), errs1, calls)
         IN  [applied |-> app1, errors |-> after.errors,
              vcalls |-> after.vcalls, warned |-> <<>>]

\* One iteration of the loop "for k, v := range m" on the call's locals:
\* the locals after it, and the line it logged, if any.
LoopBody(d, permitted, opts, k, v, app, errs, calls) ==
    IF ~inList(permitted, k)
    THEN LET msg == Sprintf(FmtNotPermitted, <<k>>) IN
         [applied |-> app,
          errors |-> IF opts.ErrorOnPermission = MissingErrorFail
                     THEN MapAppend(errs, k, Errorf(msg, <<>>))
                     ELSE errs,
          vcalls |-> calls,
          warned |-> IF opts.ErrorOnPermission = MissingErrorWarn
                     THEN <<Sprintf(msg, <<>>)>>
                     ELSE <<>>]
    ELSE IF k \notin DOMAIN d.Fields
    THEN [applied |-> app, errors |-> errs, vcalls |-> calls, warned |-> <<>>]
    ELSE LET fieldDef == d.Fields[k]
             r == Coerce(fieldDef, k, v)
             app1 == IF r.assigned THEN MapSet(app, k, r.val) ELSE app
         IN  IF r.err.isErr
             THEN [applied |-> app1, errors |-> MapAppend(errs, k, r.err),
                   vcalls |-> calls, warned |-> <<>>]
             ELSE LET after == ValidationsLoop(fieldDef.Validations, 1, k,
                                               app1[k], errs, calls)
                  IN  [applied |-> app1, errors |-> after.errors,
                       vcalls |-> after.vcalls, warned |-> <<>>]

\* The whole range loop run by one caller alone over the keys in todo.
RECURSIVE RangeLoop(_, _, _, _, _, _, _, _)
RangeLoop(d, permitted, mp, opts, todo, app, errs, calls) ==
    IF todo = {} THEN [applied |-> app, errors |-> errs, vcalls |-> calls]
    ELSE LET k == CHOOSE x \in todo : TRUE
             after == LoopBody(d, permitted, opts, k, mp[k], app, errs, calls)
         IN  RangeLoop(d, permitted, mp, opts, todo \ {k},
                       after.applied, after.errors, after.vcalls)

\* ApplyDefinition(def, permittedFields, m, options) run by one caller alone.
ApplyDefinition(d, permitted, mp, opts) ==
    IF NoPermittedFields(permitted)
    THEN Returned(FALSE, EmptyMap, EmptyMap, Errorf(FmtNoPermitted, <<>>))
    ELSE LET r == RangeLoop(d, permitted, mp, opts, DOMAIN mp,
                            EmptyMap, EmptyMap, <<>>)
         IN  Returned(TRUE, r.applied, r.errors, NoError)

NotReturned == Returned(FALSE, EmptyMap, EmptyMap, NoError)

\* No direct call is under way.
NoCall == [fn |-> "none"]

Init ==
    /\ def \in Definitions
    /\ permittedFields \in PermittedLists
    /\ m \in InputMaps
    /\ options \in OptionValues
    /\ pc = [c \in Callers |-> "start"]
    /\ visited = [c \in Callers |-> {}]
    /\ applied = [c \in Callers |-> EmptyMap]
    /\ errors = [c \in Callers |-> EmptyMap]
    /\ vcalls = [c \in Callers |-> <<>>]
    /\ returned = [c \in Callers |-> NotReturned]
    /\ logged = <<>>
    /\ unitCall = NoCall
    /\ unitRet = <<>>

\* Caller c enters ApplyDefinition: the precondition check, then the two
\* make() calls.
ApplyStart(c) ==
    /\ pc[c] = "start"
    /\ IF NoPermittedFields(permittedFields)
       THEN /\ pc' = [pc EXCEPT ![c] = "done"]
            /\ returned' = [returned EXCEPT
                   ![c] = Returned(FALSE, EmptyMap, EmptyMap, Errorf(FmtNoPermitted, <<>>))]
       ELSE /\ pc' = [pc EXCEPT ![c] = "loop"]
            /\ UNCHANGED returned
    /\ UNCHANGED <<def, permittedFields, m, options, visited, applied, errors,
                   vcalls, logged, unitCall, unitRet>>

\* ApplyLoop leaving the range loop ("break") at a key that is not permitted.
ApplyLoopBreak(c, k) ==
    /\ pc[c] = "loop"
    /\ k \in DOMAIN m \ visited[c]
    /\ LET after == LoopBody(def, permittedFields, options, k, m[k],
                             applied[c], errors[c], vcalls[c])
       IN  /\ applied' = [applied EXCEPT ![c] = after.applied]
           /\ errors' = [errors EXCEPT ![c] = after.errors]
           /\ vcalls' = [vcalls EXCEPT ![c] = after.vcalls]
           /\ logged' = logged \o after.warned
    /\ visited' = [visited EXCEPT ![c] =
           IF inList(permittedFields, k) THEN visited[c] \cup {k} ELSE DOMAIN m]
    /\ UNCHANGED <<def, permittedFields, m, options, pc, returned, unitCall,
                   unitRet>>

\* ApplyLoop with errors a package-level map that every call appends to.
ApplyLoopSharedErrors(c, k) ==
    /\ pc[c] = "loop"
    /\ k \in DOMAIN m \ visited[c]
    /\ LET after == LoopBody(def, permittedFields, options, k, m[k],
                             applied[c], errors[c], vcalls[c])
       IN  /\ applied' = [applied EXCEPT ![c] = after.applied]
           /\ errors' = [x \in Callers |-> after.errors]
           /\ vcalls' = [vcalls EXCEPT ![c] = after.vcalls]
           /\ logged' = logged \o after.warned
    /\ visited' = [visited EXCEPT ![c] = visited[c] \cup {k}]
    /\ UNCHANGED <<def, permittedFields, m, options, pc, returned, unitCall,
                   unitRet>>

\* Caller c's range loop yields key k, in whatever order the map gives.
ApplyLoop(c, k) ==
    /\ pc[c] = "loop"
    /\ k \in DOMAIN m \ visited[c]
    /\ LET after == LoopBody(def, permittedFields, options, k, m[k],
                             applied[c], errors[c], vcalls[c])
       IN  /\ applied' = [applied EXCEPT ![c] = after.applied]
           /\ errors' = [errors EXCEPT ![c] = after.errors]
           /\ vcalls' = [vcalls EXCEPT ![c] = after.vcalls]
           /\ logged' = logged \o after.warned
    /\ visited' = [visited EXCEPT ![c] = visited[c] \cup {k}]
    /\ UNCHANGED <<def, permittedFields, m, options, pc, returned, unitCall,
                   unitRet>>

\* Caller c's loop is over: return applied, errors, nil.
ApplyReturn(c) ==
    /\ pc[c] = "loop"
    /\ visited[c] = DOMAIN m
    /\ pc' = [pc EXCEPT ![c] = "done"]
    /\ returned' = [returned EXCEPT
           ![c] = Returned(TRUE, applied[c], errors[c], NoError)]
    /\ UNCHANGED <<def, permittedFields, m, options, visited, applied, errors,
                   vcalls, logged, unitCall, unitRet>>

Next ==
    \E c \in Callers :
        \/ ApplyStart(c)
        \/ \E k \in Keys : ApplyLoop(c, k)
        \/ ApplyReturn(c)

Spec == Init /\ [][Next]_vars

(***************************************************************************)
(* Properties of ApplyDefinition                                           *)
(***************************************************************************)

\* The elements of a list.
Range(list) == {list[i] : i \in DOMAIN list}

Permitted(k) == k \in Range(permittedFields)

\* The validator calls caller c made for key k, in order.
CallsFor(c, k) == SelectSeq(vcalls[c], LAMBDA x : x.key = k)

\* errors[k] of caller c, empty when k has no entry.
ErrorsFor(c, k) == IF k \in DOMAIN errors[c] THEN errors[c][k] ELSE <<>>

\* Key k of the input is permitted and declared, and its value coerces.
Coerces(k) ==
    /\ Permitted(k)
    /\ k \in DOMAIN def.Fields
    /\ ~Coerce(def.Fields[k], k, m[k]).err.isErr

\* Key k of the input is permitted and declared, and its coercion fails.
CoercionFails(k) ==
    /\ Permitted(k)
    /\ k \in DOMAIN def.Fields
    /\ Coerce(def.Fields[k], k, m[k]).err.isErr

\* C1: a call returns a top-level error exactly when permittedFields is
\* empty; it then returns nil maps and has visited no key, made no entry in
\* its maps and called no validator.
C1_TopErrorIffNoPermittedFields ==
    \A c \in Callers :
        pc[c] = "done" =>
            /\ returned[c].err.isErr <=> permittedFields = <<>>
            /\ permittedFields = <<>> =>
                   /\ ~returned[c].hasMaps
                   /\ visited[c] = {}
                   /\ applied[c] = EmptyMap
                   /\ errors[c] = EmptyMap
                   /\ vcalls[c] = <<>>
            /\ permittedFields # <<>> => returned[c].hasMaps

\* A call failed on an empty permitted list although the input has keys.
C1_Witness ==
    \E c \in Callers :
        /\ pc[c] = "done"
        /\ returned[c].err.isErr
        /\ DOMAIN m # {}
        /\ options.ErrorOnPermission = MissingErrorFail

\* C2: the keys of the returned coerced map are exactly the input keys that
\* are permitted, declared in the schema and whose value coerced without
\* error.
C2_CoercedHoldsOnlySuccesses ==
    \A c \in Callers :
        (pc[c] = "done" /\ returned[c].hasMaps) =>
            DOMAIN returned[c].applied = {k \in DOMAIN m : Coerces(k)}

\* C3: an input key that is not permitted has no entry in the coerced map
\* and none of its validators ran; it has no entry in the error map in the
\* modes none and warn, and in mode fail its error list is the one error
\* "Using field <key> not permitted".
C3_NotPermittedKeyIsDropped ==
    \A c \in Callers :
        (pc[c] = "done" /\ returned[c].hasMaps) =>
            \A k \in DOMAIN m :
                ~Permitted(k) =>
                    /\ k \notin DOMAIN returned[c].applied
                    /\ CallsFor(c, k) = <<>>
                    /\ IF options.ErrorOnPermission = MissingErrorFail
                       THEN /\ k \in DOMAIN returned[c].errors
                            /\ returned[c].errors[k] =
                                   << NewError(<<"U","s","i","n","g"," ","f","i","e","l","d"," ">>
                                               \o k \o
                                               <<" ","n","o","t"," ","p","e","r","m","i","t","t","e","d">>) >>
                       ELSE k \notin DOMAIN returned[c].errors

\* C4: once a call's loop has visited a permitted, declared key whose
\* coercion fails, the key's error list is that one coercion error and no
\* validator of the field was called.
C4_FailedCoercionOneErrorNoValidators ==
    \A k \in DOMAIN m :
        ((\E c \in Callers : k \in visited[c]) /\ CoercionFails(k)) =>
            LET err == Coerce(def.Fields[k], k, m[k]).err IN
            \A c \in Callers :
                k \in visited[c] =>
                    /\ k \in DOMAIN errors[c]
                    /\ errors[c][k] = <<err>>
                    /\ CallsFor(c, k) = <<>>
                    /\ pc[c] = "done" => returned[c].errors[k] = <<err>>

\* A call returned with a field that failed to coerce and declares validators.
C4_Witness ==
    \E c \in Callers :
        /\ pc[c] = "done"
        /\ \E k \in DOMAIN m :
               /\ CoercionFails(k)
               /\ Len(def.Fields[k].Validations) >= 1
               /\ Len(returned[c].errors[k]) = 1

\* C5: once a call's loop has visited a permitted, declared key whose value
\* coerces, every validator of the field was called exactly once, in declared
\* order, on the coerced value; the key's error list is the errors of the
\* failing validators in declared order, and the key has no entry in the
\* error map when none fails.
C5_ValidatorsAllRunInOrder ==
    \A k \in DOMAIN m :
        ((\E c \in Callers : k \in visited[c]) /\ Coerces(k)) =>
            LET vs == def.Fields[k].Validations
                val == Coerce(def.Fields[k], k, m[k]).val
                res == [i \in 1..Len(vs) |-> Validate(vs[i], val)]
                expectCalls == [i \in 1..Len(vs) |-> [key |-> k, index |-> i, arg |-> val]]
                expectErrors == SelectSeq(res, LAMBDA e : e.isErr)
            IN  \A c \in Callers :
                    k \in visited[c] =>
                        /\ CallsFor(c, k) = expectCalls
                        /\ ErrorsFor(c, k) = expectErrors
                        /\ k \in DOMAIN errors[c] <=> expectErrors # <<>>

\* A call returned with a field whose coerced value differs from the raw one
\* and whose two validators both failed.
C5_Witness ==
    \E c \in Callers :
        /\ pc[c] = "done"
        /\ \E k \in DOMAIN m :
               /\ Coerces(k)
               /\ Coerce(def.Fields[k], k, m[k]).val # m[k]
               /\ Len(def.Fields[k].Validations) = 2
               /\ Len(ErrorsFor(c, k)) = 2

\* C6: any two finished calls returned the same maps and error, whatever
\* order each visited the keys in, and each returned what ApplyDefinition
\* returns for any permitted list with the same elements.
C6_ResultIndependentOfOrder ==
    (\E c \in Callers : pc[c] = "done") =>
        /\ \A c1, c2 \in Callers :
               (pc[c1] = "done" /\ pc[c2] = "done") => returned[c1] = returned[c2]
        /\ \A p \in PermittedLists :
               Range(p) = Range(permittedFields) =>
                   LET alone == ApplyDefinition(def, p, m, options) IN
                   \A c \in Callers : pc[c] = "done" => returned[c] = alone

\* Two calls finished after visiting the keys in different orders, with
\* entries in both maps.
C6_Witness ==
    \E c1, c2 \in Callers :
        /\ pc[c1] = "done" /\ pc[c2] = "done"
        /\ vcalls[c1] # vcalls[c2]
        /\ returned[c1].applied # EmptyMap
        /\ returned[c1].errors # EmptyMap

\* What each caller has computed equals what a call running alone computes.
RunAsAlone ==
    /\ \A c \in Callers :
           pc[c] = "loop" =>
               LET alone == RangeLoop(def, permittedFields, m, options, visited[c],
                                      EmptyMap, EmptyMap, <<>>)
               IN  applied[c] = alone.applied /\ errors[c] = alone.errors
    /\ (\E c \in Callers : pc[c] = "done") =>
           LET alone == ApplyDefinition(def, permittedFields, m, options) IN
           \A c \in Callers : pc[c] = "done" => returned[c] = alone

\* C7: in every interleaving of the callers, each call computes and returns
\* what it does when run alone, and no step changes the Definition, the
\* permitted list or the input map.
C7_ConcurrentCallsIndependent ==
    /\ []RunAsAlone
    /\ [][def' = def /\ permittedFields' = permittedFields /\ m' = m]_vars

\* Two calls are inside their loops at once, each having visited a key the
\* other has not, with errors recorded.
C7_Witness ==
    /\ pc[1] = "loop" /\ pc[2] = "loop"
    /\ visited[1] = {KeyA} /\ visited[2] = {KeyPct}
    /\ errors[1] # EmptyMap /\ errors[2] # EmptyMap

(***************************************************************************)
(* Direct calls of ensureBool, of a ValidateOrChain validator and of       *)
(* GetGroup                                                                *)
(***************************************************************************)

\* The longest chain given to ValidateOrChain.
MaxChain == 2

\* The validators chained: one that fails on every value with a plain
\* message, one whose message holds a '%', and three that pass on some
\* values.
Delegates ==
    { ValidateFail(MsgNo), ValidateFail(MsgPct), ValidateTrue(MsgNo),
      ValidateFalse(MsgNo), ValidateMinimumLength(2) }

Chains == UNION { [1..n -> Delegates] : n \in 0..MaxChain }

ChainValues == { BoolValue(TRUE), BoolValue(FALSE), StringValue(StrOn) }

\* Values given to ensureBool: every dynamic type, the four accepted words,
\* words with surrounding whitespace, other cases and other strings.
BoolInputs ==
    { BoolValue(TRUE), BoolValue(FALSE), IntValue(0), IntValue(1), NilValue,
      UUIDValue(NilUUID) }
    \cup { StringValue(w) : w \in
            { StrTrue, StrOn, StrFalse, StrOff,
              <<" ">> \o StrTrue \o <<" ">>, StrTrue \o <<"\t">>,
              <<"\t">> \o StrOn, <<" ", " ">> \o StrOff, <<"\n">> \o StrFalse \o <<"\r", "\n">>,
              <<"T","r","u","e">>, <<"O","N">>, <<"t","r","u">>,
              <<"t"," ","r","u","e">>, <<"y","e","s">>, <<"1">>, <<>>, <<" ">>,
              <<"d","u","n","n","o">> } }

Groups == {"g1", "g2", "g3"}

KeyC == <<"c">>

\* The schemas given to GetGroup: those above, and one with two fields of
\* one group and a third field of another.
GroupDefinitions ==
    Definitions \cup
    { Definition(KeyA :> FieldDefinition("g1", TypeBool, <<>>, FALSE)
              @@ KeyPct :> FieldDefinition("g2", TypeString, <<>>, FALSE)
              @@ KeyC :> FieldDefinition("g1", TypeUUID, <<>>, FALSE)) }

\* Maps given to GetGroup.
GroupMaps ==
    UNION { [D -> {BoolValue(TRUE), StringValue(<<"x">>)}] :
                D \in SUBSET (Keys \cup {KeyC}) }

\* The Definition held while a function is called directly.
NoDefinition == Definition(EmptyMap)

InitUnit ==
    /\ def = NoDefinition
    /\ permittedFields = <<>>
    /\ m = EmptyMap
    /\ options = ApplyOptions(MissingErrorNone)
    /\ pc = [c \in Callers |-> "idle"]
    /\ visited = [c \in Callers |-> {}]
    /\ applied = [c \in Callers |-> EmptyMap]
    /\ errors = [c \in Callers |-> EmptyMap]
    /\ vcalls = [c \in Callers |-> <<>>]
    /\ returned = [c \in Callers |-> NotReturned]
    /\ logged = <<>>
    /\ unitRet = <<>>
    /\ \/ \E s \in BoolInputs, trimSpace \in BOOLEAN :
              unitCall = [fn |-> "ensureBool", s |-> s, trimSpace |-> trimSpace]
       \/ \E validators \in Chains, s \in ChainValues :
              unitCall = [fn |-> "OrChain", validators |-> validators, s |-> s]
       \/ \E d \in GroupDefinitions, group \in Groups, mp \in GroupMaps :
              unitCall = [fn |-> "GetGroup", d |-> d, group |-> group, mp |-> mp]

applyVars ==
    <<def, permittedFields, m, options, pc, visited, applied, errors, vcalls,
      returned, logged>>

\* ensureBool(s, trimSpace) is called and returns.
CallEnsureBool ==
    /\ unitCall.fn = "ensureBool"
    /\ unitRet = <<>>
    /\ unitRet' = <<ensureBool(unitCall.s, unitCall.trimSpace)>>
    /\ UNCHANGED <<applyVars, unitCall>>

\* The validator ValidateOrChain(validators...) is called on s and returns:
\* its error, and the delegates it called.
CallOrChain ==
    /\ unitCall.fn = "OrChain"
    /\ unitRet = <<>>
    /\ unitRet' = <<OrChainLoop(unitCall.validators, unitCall.s, 1, <<>>, <<>>)>>
    /\ UNCHANGED <<applyVars, unitCall>>

\* GetGroup(def, group, m) is called and returns.
CallGetGroup ==
    /\ unitCall.fn = "GetGroup"
    /\ unitRet = <<>>
    /\ unitRet' = <<GetGroup(unitCall.d, unitCall.group, unitCall.mp)>>
    /\ UNCHANGED <<applyVars, unitCall>>

NextUnit ==
    \/ CallEnsureBool
    \/ CallOrChain
    \/ CallGetGroup

SpecUnit == InitUnit /\ [][NextUnit]_vars

\* The direct call of fn has returned.
UnitReturned(fn) == unitCall.fn = fn /\ unitRet # <<>>

\* C8: the OR-chain validator succeeds exactly when the chain is empty or
\* some delegate succeeds; it calls the delegates in order up to and
\* including the first that succeeds; when all of a non-empty chain fail its
\* error message is the delegates' messages in order joined by " or ".
C8_OrChainJoinsAllMessages ==
    UnitReturned("OrChain") =>
        LET vs == unitCall.validators
            res == [i \in 1..Len(vs) |-> Validate(vs[i], unitCall.s)]
            passing == {i \in 1..Len(vs) : ~res[i].isErr}
            last == IF passing = {} THEN Len(vs)
                    ELSE CHOOSE i \in passing : \A j \in passing : i <= j
            got == unitRet[1]
        IN  /\ ~got.err.isErr <=> (vs = <<>> \/ passing # {})
            /\ got.called = [i \in 1..last |-> i]
            /\ (vs # <<>> /\ passing = {}) =>
                   got.err.msg = Join([i \in 1..Len(vs) |-> res[i].msg], OrSep)

\* The fields of d that GetGroup(d, group, mp) is to return.
InGroup(d, group, mp) ==
    {k \in DOMAIN mp : k \in DOMAIN d.Fields /\ d.Fields[k].Group = group}

\* C9: GetGroup returns the map m restricted to the keys that the schema
\* declares with the given group, each with its value in m, and the call
\* leaves its arguments as they were.
C9_GetGroupRestrictsToGroup ==
    /\ [](UnitReturned("GetGroup") =>
           /\ DOMAIN unitRet[1] = InGroup(unitCall.d, unitCall.group, unitCall.mp)
           /\ \A k \in DOMAIN unitRet[1] : unitRet[1][k] = unitCall.mp[k])
    /\ [][unitCall' = unitCall]_vars

\* GetGroup returned a key of m and left out a key of m that the schema
\* declares in another group, and the schema declares a field of the group
\* that m does not hold.
C9_Witness ==
    /\ UnitReturned("GetGroup")
    /\ unitRet[1] # EmptyMap
    /\ \E k \in DOMAIN unitCall.mp :
           /\ k \in DOMAIN unitCall.d.Fields
           /\ k \notin DOMAIN unitRet[1]
    /\ \E k \in DOMAIN unitCall.d.Fields :
           /\ unitCall.d.Fields[k].Group = unitCall.group
           /\ k \notin DOMAIN unitCall.mp
           /\ k \notin DOMAIN unitRet[1]

\* s without its leading and trailing whitespace: from its first to its last
\* character that is not whitespace.
Trimmed(s) ==
    LET solid == {i \in 1..Len(s) : s[i] \notin WhiteSpace} IN
    IF solid = {} THEN <<>>
    ELSE SubSeq(s, CHOOSE i \in solid : \A j \in solid : i <= j,
                   CHOOSE i \in solid : \A j \in solid : i >= j)

\* C10: ensureBool returns a native bool unchanged; for a string, trimmed
\* only when the flag is set, it returns true for "true" and "on", false
\* for "false" and "off", and fails with "field must be true or false" for
\* any other; a value of another type fails with the type-mismatch error.
C10_EnsureBool ==
    UnitReturned("ensureBool") =>
        LET s == unitCall.s
            got == unitRet[1]
            str == IF unitCall.trimSpace THEN Trimmed(s.v) ELSE s.v
        IN  CASE s.t = "bool" -> got = Result(s, NoError)
              [] s.t = "string" ->
                    IF str \in {StrTrue, StrOn} THEN got = Result(BoolValue(TRUE), NoError)
                    ELSE IF str \in {StrFalse, StrOff}
                         THEN got = Result(BoolValue(FALSE), NoError)
                         ELSE got = Result(NilValue, NewError(FmtTrueOrFalse))
              [] OTHER ->
                    got = Result(NilValue,
                              NewError(<<"C","a","n","n","o","t"," ","c","o","n","v","e","r","t"," ","t","y","p","e"," ">>
                                       \o TypeNameOf(s) \o <<" ","t","o"," ","b","o","o","l">>))

\* ensureBool returned true for " true " with trimming enabled.
C10_Witness ==
    /\ UnitReturned("ensureBool")
    /\ unitCall.s = StringValue(<<" ">> \o StrTrue \o <<" ">>)
    /\ unitCall.trimSpace
    /\ unitRet[1] = Result(BoolValue(TRUE), NoError)

(***************************************************************************)
(* Direct calls of ensureString, of ApplyDefinition on a schema of one     *)
(* string field, and of validators                                         *)
(***************************************************************************)

\* Values given to ensureString: every other dynamic type, and strings with
\* and without surrounding whitespace.
StringInputs ==
    { BoolValue(TRUE), IntValue(7), NilValue, UUIDValue(NilUUID) }
    \cup { StringValue(w) : w \in
            { <<"l","o","r","e","m"," ","i","p","s","u","m">>,
              <<"\t","\t","l","o","r","e","m"," ","i","p","s","u","m","\t"," ">>,
              <<>>, <<" ">>, <<" ", "x">>, <<"x", "\n">>, <<"a", " ", "b">>,
              <<"\r", "%", "d", " ">> } }

\* "Must be numbers only"
MsgNumbers ==
    <<"M","u","s","t"," ","b","e"," ","n","u","m","b","e","r","s"," ","o","n","l","y">>

\* "Must only contain letters and numbers"
MsgLettersNumbers ==
    <<"M","u","s","t"," ","o","n","l","y"," ","c","o","n","t","a","i","n"," ","l","e","t","t","e","r","s"," ","a","n","d"," ","n","u","m","b","e","r","s">>

\* The validators built by ValidateRegex: ValidateNumbers,
\* ValidateLettersWithNumbers, and two built with other messages, one of
\* them holding a '%'.
RegexValidators ==
    { ValidateRegex(numberRx, MsgNumbers),
      ValidateRegex(lettersWithNumbersRx, MsgLettersNumbers),
      ValidateRegex(aTrueRx, MsgNo),
      ValidateRegex(aTrueRx, MsgPct) }

\* Values given to a regex validator.
RegexInputs ==
    { BoolValue(TRUE), IntValue(12), NilValue }
    \cup { StringValue(w) : w \in
            { <<>>, <<"-">>, <<"1", "2">>, <<"-", "1", "2">>, <<"1", "-", "2">>,
              <<"a", "1">>, <<"a", " ", "b">>, StrTrue, StrTrue \o <<"\n">>,
              StrTrue \o <<"r">>, <<" ">> \o StrTrue } }

\* Values given to the validator of ValidatePositive.
PositiveInputs ==
    { IntValue(i) : i \in {-1000, -2, -1, 0, 1, 2, 1000} }
    \cup { BoolValue(TRUE), NilValue, StringValue(<<"1">>), UUIDValue(NilUUID) }

\* The schemas of one string field, trimmed or not.
StringDefinitions ==
    { Definition(KeyA :> FieldDefinition("g1", TypeString, <<>>, disableTrim)) :
          disableTrim \in BOOLEAN }

InitDirect ==
    /\ def = NoDefinition
    /\ permittedFields = <<>>
    /\ m = EmptyMap
    /\ options = ApplyOptions(MissingErrorNone)
    /\ pc = [c \in Callers |-> "idle"]
    /\ visited = [c \in Callers |-> {}]
    /\ applied = [c \in Callers |-> EmptyMap]
    /\ errors = [c \in Callers |-> EmptyMap]
    /\ vcalls = [c \in Callers |-> <<>>]
    /\ returned = [c \in Callers |-> NotReturned]
    /\ logged = <<>>
    /\ unitRet = <<>>
    /\ \/ \E s \in StringInputs, trimSpace \in BOOLEAN :
              unitCall = [fn |-> "ensureString", s |-> s, trimSpace |-> trimSpace]
       \/ \E d \in StringDefinitions, s \in StringInputs :
              unitCall = [fn |-> "ApplyDefinition", d |-> d, permitted |-> <<KeyA>>,
                          mp |-> KeyA :> s, opts |-> ApplyOptions(MissingErrorNone)]
       \/ \E vd \in RegexValidators, s \in RegexInputs :
              unitCall = [fn |-> "ValidateRegex", vd |-> vd, s |-> s]
       \/ \E s \in PositiveInputs :
              unitCall = [fn |-> "ValidatePositive", vd |-> ValidatePositive, s |-> s]

\* ensureString(s, trimSpace) is called and returns.
CallEnsureString ==
    /\ unitCall.fn = "ensureString"
    /\ unitRet = <<>>
    /\ unitRet' = <<ensureString(unitCall.s, unitCall.trimSpace)>>
    /\ UNCHANGED <<applyVars, unitCall>>

\* ApplyDefinition(def, permittedFields, m, options) is called and returns.
CallApplyDefinition ==
    /\ unitCall.fn = "ApplyDefinition"
    /\ unitRet = <<>>
    /\ unitRet' = <<ApplyDefinition(unitCall.d, unitCall.permitted, unitCall.mp,
                                    unitCall.opts)>>
    /\ UNCHANGED <<applyVars, unitCall>>

\* A validator built by ValidateRegex is called on s and returns.
CallRegex ==
    /\ unitCall.fn = "ValidateRegex"
    /\ unitRet = <<>>
    /\ unitRet' = <<Validate(unitCall.vd, unitCall.s)>>
    /\ UNCHANGED <<applyVars, unitCall>>

\* The validator of ValidatePositive is called on s and returns.
CallPositive ==
    /\ unitCall.fn = "ValidatePositive"
    /\ unitRet = <<>>
    /\ unitRet' = <<Validate(unitCall.vd, unitCall.s)>>
    /\ UNCHANGED <<applyVars, unitCall>>

NextDirect ==
    \/ CallEnsureString
    \/ CallApplyDefinition
    \/ CallRegex
    \/ CallPositive

SpecDirect == InitDirect /\ [][NextDirect]_vars

\* "Cannot convert type T to string" for the dynamic type T of s.
StringMismatch(s) ==
    NewError(<<"C","a","n","n","o","t"," ","c","o","n","v","e","r","t"," ","t","y","p","e"," ">>
             \o TypeNameOf(s) \o <<" ","t","o"," ","s","t","r","i","n","g">>)

\* C11: ensureString returns a string with its surrounding whitespace
\* removed when trimming is enabled and unchanged when it is disabled, and
\* fails with the type-mismatch error, returning no string, for a value of
\* any other type; ApplyDefinition does the same for a field of type string,
\* trimming unless the field disables it.
C11_EnsureString ==
    /\ UnitReturned("ensureString") =>
           LET s == unitCall.s
               got == unitRet[1]
           IN  IF s.t = "string"
               THEN got = Result(StringValue(IF unitCall.trimSpace
                                             THEN Trimmed(s.v) ELSE s.v), NoError)
               ELSE got.err = StringMismatch(s) /\ got.val.t # "string"
    /\ UnitReturned("ApplyDefinition") =>
           LET s == unitCall.mp[KeyA]
               fieldDef == unitCall.d.Fields[KeyA]
               got == unitRet[1]
           IN  /\ got.hasMaps
               /\ ~got.err.isErr
               /\ IF s.t = "string"
                  THEN /\ got.applied = KeyA :> StringValue(IF ~fieldDef.DisableTrim
                                                            THEN Trimmed(s.v) ELSE s.v)
                       /\ got.errors = EmptyMap
                  ELSE /\ got.errors = KeyA :> <<StringMismatch(s)>>
                       /\ MapGet(got.applied, KeyA).t # "string"

\* ensureString returned "lorem ipsum" for that text between tabs and
\* spaces, trimming enabled.
C11_Witness ==
    /\ UnitReturned("ensureString")
    /\ unitCall.trimSpace
    /\ unitCall.s = StringValue(<<"\t","\t","l","o","r","e","m"," ","i","p","s","u","m","\t"," ">>)
    /\ unitRet[1] = Result(StringValue(<<"l","o","r","e","m"," ","i","p","s","u","m">>), NoError)

\* C12: a validator built by ValidateRegex(pattern, message) succeeds for a
\* string that matches the pattern, and fails with exactly the supplied
\* message for a string that does not match and for a value that is not a
\* string.
C12_RegexFailsWithMessage ==
    UnitReturned("ValidateRegex") =>
        LET vd == unitCall.vd
            s == unitCall.s
        IN  IF s.t = "string" /\ MatchString(vd.rx, s.v)
            THEN unitRet[1] = NoError
            ELSE unitRet[1] = NewError(vd.msg)

\* C13: the validator of ValidatePositive fails with ErrMustBeInt for a
\* value that is not an int, fails with "Must be positive" for an int that
\* is zero or negative, and succeeds for an int greater than zero.
C13_PositiveRejectsZero ==
    UnitReturned("ValidatePositive") =>
        LET s == unitCall.s IN
        IF s.t # "int" THEN unitRet[1] = ErrMustBeInt
        ELSE IF s.v > 0 THEN unitRet[1] = NoError
        ELSE unitRet[1] = NewError(FmtMustBePositive)

====
